---- MODULE Spec2Model ----
(***************************************************************************)
(* Model of the Shadow simulation controller's window advancement          *)
(* (src/src/main/core/controller.c).                                       *)
(*                                                                         *)
(* SimulationTime is an unsigned 64-bit nanosecond count in the source.    *)
(* The model keeps the unsigned wrap-around arithmetic but scales the      *)
(* word to TimeBits bits and the time unit to one tick = 1/SubMs ms, so    *)
(* that SIMTIME_ONE_MILLISECOND is SubMs ticks.  A gdouble latency (in     *)
(* milliseconds) is modelled as the rational lat/SubMs ms, lat a natural   *)
(* number, so that fractional millisecond values exist.                    *)
(***************************************************************************)
EXTENDS Integers, FiniteSets, Sequences, TLC

\* ------------------------------------------------------------------ bounds
\* width of the modelled SimulationTime word (64 in the source)
TimeBits == 5
\* number of representable latency steps per millisecond (ticks per ms)
SubMs == 2
\* largest latency reported through updateMinTimeJump, in 1/SubMs ms
MaxLatency == 5

\* --------------------------------------------------------------- constants
\* the default lookahead, in milliseconds ("default to 10 milliseconds")
DefaultJumpMs == 10

G_MAXUINT64 == 2^TimeBits - 1

SIMTIME_ONE_MILLISECOND == SubMs

SimulationTime == 0..G_MAXUINT64

\* unsigned arithmetic of the SimulationTime word
WrapU64(x) == x % (G_MAXUINT64 + 1)

\* the latencies (gdouble milliseconds) the callers report: lat/SubMs ms
Latencies == 1..MaxLatency

\* config_getStopTime, config_getRunahead, config_getWorkers
\* stop times below, at and above the default lookahead, and at the top of the word
StopTimes ==
    {0, 1, SubMs + 1,
     DefaultJumpMs * SubMs - 1, DefaultJumpMs * SubMs, DefaultJumpMs * SubMs + 3,
     G_MAXUINT64 - 1, G_MAXUINT64}
\* no runahead, one between the reported latencies, one above the default lookahead
Runaheads == {0, SubMs + 1, DefaultJumpMs * SubMs + 5}
Workers == {0, 1}

VARIABLES
    phase,               \* "Created" after controller_new, "Running" once run() set the windows
    config,              \* the ConfigOptions the controller borrows
    minJumpTimeConfig,
    minJumpTime,
    nextMinJumpTime,
    executeWindowStart,
    executeWindowEnd,
    endTime,
    aborted,             \* a utility_assert failed: the process is gone
    lastOp,              \* the entry point that produced this state
    ret,                 \* what the last managerFinishedCurrentRound returned, or NoRet
    reported,            \* smallest latency reported so far (1/SubMs ms), 0 if none
    succ                 \* how the last round call relates to the call before it

VARIABLES
    logs,                \* the log messages emitted so far (a set: order and repeats dropped)
    pc,                  \* where controller_run stands
    hosts,               \* the host entries of the configuration, in declaration order
    nodeBw,              \* the bandwidths the graph node supplies
    graph,               \* controller->graph: "null" or "loaded"
    ipAssignment,        \* controller->ipAssignment: "null" or the set of bound addresses
    dns,                 \* controller->dns: "null" or "alive"
    routingInfo,         \* controller->routingInfo: "null" or "built"
    manager,             \* controller->manager: "null", "alive" or "freed"
    cursor,              \* position of the registration: pass, entry, instance
    trace,               \* the calls made on the collaborators so far, in order
    exitCode,            \* what controller_run returned, once pc = "returned"
    calls                \* number of rounds the Manager's loop has finished

VARIABLES
    threads,             \* worker threads inside a Controller entry point: position and locals
    fs,                  \* the fileserver_t of the file-transfer plug-in
    env,                 \* what the plug-in did to the system: sockets closed, files opened and closed
    last                 \* the plug-in call that produced this state, and what it returned

winVars == <<phase, config, minJumpTimeConfig, minJumpTime, nextMinJumpTime,
             executeWindowStart, executeWindowEnd, endTime, aborted, lastOp, ret,
             reported, succ>>

\* the plug-in and the threads, which the controller's own steps leave alone
otherVars == <<threads, fs, env, last>>

runVars == <<pc, hosts, nodeBw, graph, ipAssignment, dns, routingInfo, manager,
             cursor, trace, exitCode>>

vars == <<phase, config, minJumpTimeConfig, minJumpTime, nextMinJumpTime,
          executeWindowStart, executeWindowEnd, endTime, aborted, lastOp, ret,
          reported, succ, logs, pc, hosts, nodeBw, graph, ipAssignment, dns,
          routingInfo, manager, cursor, trace, exitCode, calls,
          threads, fs, env, last>>

NoRet == [start |-> 0, end |-> 0, keepRunning |-> FALSE, called |-> FALSE]

\* no pair of successive round calls yet
NoSucc == [isSuccessor |-> FALSE, prevKeepRunning |-> FALSE,
           contract |-> FALSE, nonDecreasing |-> FALSE]

\* ------------------------------------------------------------ pure helpers

\* _controller_getMinTimeJump with the "no default" slip: a zero minJumpTime is used as is
GetMinTimeJump_noDefault(mjt, cfg) ==
    IF cfg > 0 /\ mjt < cfg THEN cfg ELSE mjt

\* _controller_getMinTimeJump without the configured lower bound
GetMinTimeJump_noFloor(mjt, cfg) ==
    IF mjt > 0 THEN mjt ELSE WrapU64(DefaultJumpMs * SIMTIME_ONE_MILLISECOND)

\* _controller_getMinTimeJump(controller)
GetMinTimeJump(mjt, cfg) ==
    LET base == IF mjt > 0 THEN mjt
                ELSE WrapU64(DefaultJumpMs * SIMTIME_ONE_MILLISECOND)
    IN  IF cfg > 0 /\ base < cfg THEN cfg ELSE base

\* the cast and multiplication of controller_updateMinTimeJump:
\* ((SimulationTime)minPathLatency) * SIMTIME_ONE_MILLISECOND
\* the cast of a positive double to an unsigned integer drops the fraction
LatencyToSimTime(lat) ==
    WrapU64((lat \div SubMs) * SIMTIME_ONE_MILLISECOND)

\* commit step that never takes the observation over
CommitMinJump_never(mjt, next) == mjt

\* "update our detected min jump time"
CommitMinJump(mjt, next) ==
    IF next # 0 THEN next ELSE mjt

\* clamp with the comparison inverted
ClampToEndTime_inverted(newEnd, end) ==
    IF newEnd < end THEN end ELSE newEnd

\* clamp left out
ClampToEndTime_none(newEnd, end) == newEnd

\* "making sure we dont run over the experiment end time"
ClampToEndTime(newEnd, end) ==
    IF newEnd > end THEN end ELSE newEnd

\* keepRunning computed with # instead of <
KeepRunning_neq(newStart, newEnd) == newStart # newEnd

\* "return TRUE if we should keep running"
KeepRunning(newStart, newEnd) == newStart < newEnd

\* initial window end that ignores the single-threaded mode
InitialWindowEnd_alwaysJump(nWorkers, jump) == jump

\* the end of the first window, by the configured number of workers
InitialWindowEnd(nWorkers, jump) ==
    IF nWorkers > 0 THEN jump ELSE G_MAXUINT64

\* ------------------------------------------------------------------- Init
\* the state controller_new returns: g_new0 zeroes the struct, the runahead is
\* captured from the configuration, and info("simulation controller created")
\* has been called
controller_new ==
    /\ phase = "Created"
    /\ minJumpTimeConfig = config.runahead
    /\ minJumpTime = 0
    /\ nextMinJumpTime = 0
    /\ executeWindowStart = 0
    /\ executeWindowEnd = 0
    /\ endTime = 0
    /\ aborted = FALSE
    /\ lastOp = "new"
    /\ ret = NoRet
    /\ reported = 0
    /\ succ = NoSucc
    /\ logs = {"simulation controller created"}
    /\ pc = "created"
    /\ graph = "null"
    /\ ipAssignment = "null"
    /\ dns = "null"
    /\ routingInfo = "null"
    /\ manager = "null"
    /\ cursor = [pass |-> 0, entry |-> 0, inst |-> 0]
    /\ trace = << >>
    /\ exitCode = 0
    /\ calls = 0

\* no worker thread is inside the Controller and no plug-in has been started
NoThreads == << >>
NoFileserver == [listen_sockd |-> 0 - 1, connections |-> << >>,
                 bytes_sent |-> 0, bytes_received |-> 0, replies_sent |-> 0]
NoEnv == [open |-> {}, accepts |-> 0, peer |-> << >>]
NoCall == [op |-> "none"]

OthersIdle ==
    /\ threads = NoThreads
    /\ fs = NoFileserver
    /\ env = NoEnv
    /\ last = NoCall

\* window advancement: every window configuration, no host entries
Init ==
    /\ config \in [stopTime : StopTimes, runahead : Runaheads, workers : Workers]
    /\ hosts = << >>
    /\ nodeBw = [down |-> [ok |-> FALSE, v |-> 0], up |-> [ok |-> FALSE, v |-> 0]]
    /\ controller_new
    /\ OthersIdle

\* ---------------------------------------------------------------- actions

\* _controller_initializeTimeWindows, called once by controller_run
controller_initializeTimeWindows ==
    /\ phase = "Created"
    /\ ~aborted
    /\ phase' = "Running"
    /\ endTime' = config.stopTime
    /\ executeWindowStart' = 0
    /\ executeWindowEnd' =
          InitialWindowEnd(config.workers, GetMinTimeJump(minJumpTime, minJumpTimeConfig))
    /\ lastOp' = "init"
    /\ UNCHANGED <<config, minJumpTimeConfig, minJumpTime, nextMinJumpTime,
                   aborted, ret, reported, succ, logs>>

\* controller_updateMinTimeJump that applies the observation at once
controller_updateMinTimeJump_eager(lat) ==
    LET minPathLatencySimTime == LatencyToSimTime(lat) IN
    /\ ~aborted
    /\ reported' = IF reported = 0 \/ lat < reported THEN lat ELSE reported
    /\ lastOp' = "update"
    /\ IF nextMinJumpTime = 0 \/ minPathLatencySimTime < nextMinJumpTime
       THEN IF minPathLatencySimTime > 0
            THEN /\ nextMinJumpTime' = minPathLatencySimTime
                 /\ minJumpTime' = minPathLatencySimTime
                 /\ logs' = logs \cup {"updated topology minimum time jump"}
                 /\ UNCHANGED aborted
            ELSE /\ aborted' = TRUE
                 /\ UNCHANGED <<nextMinJumpTime, minJumpTime, logs>>
       ELSE UNCHANGED <<nextMinJumpTime, minJumpTime, aborted, logs>>
    /\ UNCHANGED <<phase, config, minJumpTimeConfig,
                   executeWindowStart, executeWindowEnd, endTime, ret, succ>>

\* controller_updateMinTimeJump(controller, minPathLatency)
controller_updateMinTimeJump(lat) ==
    LET minPathLatencySimTime == LatencyToSimTime(lat) IN
    /\ ~aborted
    /\ reported' = IF reported = 0 \/ lat < reported THEN lat ELSE reported
    /\ lastOp' = "update"
    /\ IF nextMinJumpTime = 0 \/ minPathLatencySimTime < nextMinJumpTime
       THEN IF minPathLatencySimTime > 0
            THEN /\ nextMinJumpTime' = minPathLatencySimTime
                 /\ logs' = logs \cup {"updated topology minimum time jump"}
                 /\ UNCHANGED aborted
            ELSE \* utility_assert(minPathLatencySimTime > 0) fails
                 /\ aborted' = TRUE
                 /\ UNCHANGED <<nextMinJumpTime, logs>>
       ELSE UNCHANGED <<nextMinJumpTime, aborted, logs>>
    /\ UNCHANGED <<phase, config, minJumpTimeConfig, minJumpTime,
                   executeWindowStart, executeWindowEnd, endTime, ret, succ>>

\* controller_managerFinishedCurrentRound(controller, minNextEventTime, &start, &end)
controller_managerFinishedCurrentRound(minNextEventTime) ==
    LET committed == CommitMinJump(minJumpTime, nextMinJumpTime)
        newStart  == minNextEventTime
        sum       == WrapU64(minNextEventTime + GetMinTimeJump(committed, minJumpTimeConfig))
        newEnd    == ClampToEndTime(sum, endTime)
    IN
    /\ ~aborted
    /\ minJumpTime' = committed
    /\ executeWindowStart' = newStart
    /\ executeWindowEnd' = newEnd
    /\ ret' = [start |-> newStart, end |-> newEnd,
               keepRunning |-> KeepRunning(newStart, newEnd), called |-> TRUE]
    /\ succ' = [isSuccessor |-> ret.called,
                prevKeepRunning |-> ret.called /\ ret.keepRunning,
                contract |-> ret.called /\ minNextEventTime >= ret.end,
                nonDecreasing |-> ret.called /\ newStart >= ret.start]
    /\ lastOp' = "round"
    /\ UNCHANGED <<phase, config, minJumpTimeConfig, nextMinJumpTime, endTime,
                   aborted, reported, logs>>

\* The Manager is the only caller of updateMinTimeJump and of
\* managerFinishedCurrentRound, and controller_run creates it after
\* _controller_initializeTimeWindows: both are called in phase "Running" only.
ManagerUpdatesMinTimeJump ==
    /\ phase = "Running"
    /\ \E lat \in Latencies : controller_updateMinTimeJump(lat)
    /\ UNCHANGED <<runVars, calls, otherVars>>

ManagerFinishesRound ==
    /\ phase = "Running"
    /\ \E t \in SimulationTime : controller_managerFinishedCurrentRound(t)
    /\ UNCHANGED <<runVars, calls, otherVars>>

\* controller_run reaches _controller_initializeTimeWindows
WindowsInitialized ==
    /\ controller_initializeTimeWindows
    /\ UNCHANGED <<runVars, calls, otherVars>>

Next ==
    \/ WindowsInitialized
    \/ ManagerUpdatesMinTimeJump
    \/ ManagerFinishesRound

Spec == Init /\ [][Next]_vars

\* ------------------------------------------------ the Manager's round loop
\* The Manager's loop as the spec's scenario S5 runs it: the calls report 0
\* first and the previous windowEnd afterwards, and the loop leaves when
\* keepRunning is FALSE.  Latencies are observed before the first round only,
\* so the lookahead is the same in every round.

LoopObservesLatency ==
    /\ phase = "Running"
    /\ ~ret.called
    /\ \E lat \in Latencies : controller_updateMinTimeJump(lat)
    /\ UNCHANGED <<runVars, calls, otherVars>>

ManagerLoopRound ==
    /\ phase = "Running"
    /\ ~ret.called \/ ret.keepRunning
    /\ controller_managerFinishedCurrentRound(IF ret.called THEN ret.end ELSE 0)
    /\ calls' = calls + 1
    /\ UNCHANGED <<runVars, otherVars>>

LoopNext ==
    \/ WindowsInitialized
    \/ LoopObservesLatency
    \/ ManagerLoopRound

SpecLoop == Init /\ [][LoopNext]_vars

\* the loop with the Manager's thread scheduled: it keeps calling
SpecLoopFair ==
    SpecLoop /\ WF_vars(WindowsInitialized) /\ WF_vars(ManagerLoopRound)

\* ------------------------------------------- calls made before run()
\* controller.h exports both entry points and neither looks at how far run()
\* got: a caller that holds the Controller returned by controller_new can make
\* them before _controller_initializeTimeWindows ran.

EarlyUpdateMinTimeJump ==
    /\ phase = "Created"
    /\ \E lat \in Latencies : controller_updateMinTimeJump(lat)
    /\ UNCHANGED <<runVars, calls, otherVars>>

EarlyFinishedCurrentRound ==
    /\ phase = "Created"
    /\ \E t \in SimulationTime : controller_managerFinishedCurrentRound(t)
    /\ UNCHANGED <<runVars, calls, otherVars>>

CreatedNext ==
    \/ EarlyUpdateMinTimeJump
    \/ EarlyFinishedCurrentRound

SpecCreated == Init /\ [][CreatedNext]_vars

\* ------------------------------------------------- controller_run: inputs
\* largest number of host entries in a configuration
MaxHosts == 2
\* largest quantity of a host entry or of a process entry
MaxQuantity == 2
\* largest number of process entries of a host entry
MaxProcs == 2

\* a NULL pointer where the source passes a string
NULL == "NULL"

\* an optional value: what an accessor returning (status, out parameter) yields
NoOpt == [ok |-> FALSE, v |-> 0]
Some(x) == [ok |-> TRUE, v |-> x]

SeqsUpTo(S, n) == UNION {[1..k -> S] : k \in 0..n}

DistinctNames(hs) ==
    \A i, j \in DOMAIN hs : i # j => hs[i].name # hs[j].name

\* host names; "a1" is "a" followed by a digit
Names == {"a", "a1", "b"}

\* the addresses of the pool; 0 stands for "no address"
Addresses == {1, 2, 3}

\* a bandwidth option: absent, zero, or a value
BwOptions(val) == {NoOpt, Some(0), Some(val)}

NoNodeBw == [down |-> NoOpt, up |-> NoOpt]

\* a process entry: resolved path (or NULL), arguments, quantity
ProcEntries ==
    [path : {NULL, "/bin/p"}, args : {<< >>, <<"x", "y">>}, quantity : 0..MaxQuantity]

\* configurations that vary names, quantities and explicit addresses
RegConfigs ==
    {<<hs, NoNodeBw>> :
        hs \in {h \in SeqsUpTo([name : Names, quantity : 0..MaxQuantity,
                                ipAddr : {0, 1, 2},
                                bwDown : {Some(5)}, bwUp : {Some(5)},
                                procs : {<< >>}], MaxHosts) : DistinctNames(h)}}

\* configurations that vary where the bandwidths come from
BwConfigs ==
    {<<hs, nb>> :
        hs \in {<<h>> : h \in [name : {"a"}, quantity : {1}, ipAddr : {0},
                               bwDown : BwOptions(5), bwUp : BwOptions(5),
                               procs : {<< >>}]},
        nb \in [down : BwOptions(7), up : BwOptions(7)]}

\* configurations that vary the process entries of one host entry
ProcConfigs ==
    {<<hs, NoNodeBw>> :
        hs \in {<<h>> : h \in [name : {"a"}, quantity : 1..MaxQuantity, ipAddr : {0},
                               bwDown : {Some(5)}, bwUp : {Some(5)},
                               procs : SeqsUpTo(ProcEntries, MaxProcs)]}}

RunConfigs == RegConfigs \cup BwConfigs \cup ProcConfigs

\* ----------------------------------------------- controller_run: helpers

Digits == <<"0", "1", "2", "3", "4", "5", "6", "7", "8", "9">>

\* printf("%" G_GUINT64_FORMAT): the decimal digits of n
RECURSIVE Decimal(_)
Decimal(n) ==
    IF n < 10 THEN Digits[n + 1]
    ELSE Decimal(n \div 10) \o Digits[(n % 10) + 1]

\* host name that numbers the instances from 0
HostName_fromZero(name, quantity, i) ==
    IF quantity > 1 THEN name \o Decimal(i) ELSE name

\* g_string_new(name), with i + 1 appended when quantity > 1
HostName(name, quantity, i) ==
    IF quantity > 1 THEN name \o Decimal(i + 1) ELSE name

\* hostoptions_getIpAddr(host, &ipAddr) == 0
IpAddrSet(host) == host.ipAddr # 0

\* the pass flags swapped
RegisterIfAddressSpecified_swapped(pass) == pass = 2

\* options.registerIfAddressSpecified of the two config_iterHosts passes
RegisterIfAddressSpecified(pass) == pass = 1

\* the check for a single address on several hosts left out
IsAmbiguous_unchecked(host) == FALSE

\* "make sure we're not trying to set a single address for multiple hosts"
IsAmbiguous(host) == IpAddrSet(host) /\ host.quantity > 1

\* bandwidth where the graph node overrides the host option
ResolveBandwidth_graphWins(nodeOpt, hostOpt) ==
    [found |-> nodeOpt.ok \/ hostOpt.ok,
     v |-> IF nodeOpt.ok THEN nodeOpt.v ELSE IF hostOpt.ok THEN hostOpt.v ELSE 0]

\* foundBw |= graph accessor; foundBw |= host accessor: both write the same
\* field of the zeroed params, the host option last
ResolveBandwidth(nodeOpt, hostOpt) ==
    LET afterGraph == IF nodeOpt.ok THEN nodeOpt.v ELSE 0
        afterHost  == IF hostOpt.ok THEN hostOpt.v ELSE afterGraph
    IN  [found |-> nodeOpt.ok \/ hostOpt.ok, v |-> afterHost]

\* a call on a collaborator, as the trace records it
Ev(kind) ==
    [ev |-> kind, name |-> "", ip |-> 0, down |-> 0, up |-> 0, argv |-> << >>,
     entry |-> 0, inst |-> 0, proc |-> 0]

\* argv without the terminating NULL
ProcessArgv_unterminated(proc) == <<proc.path>> \o proc.args

\* argv: the resolved path, the configured arguments, NULL
ProcessArgv(proc) == <<proc.path>> \o proc.args \o <<NULL>>

\* the loop over the process quantity ending one pass early
ProcessCalls_oneShort(proc, hostname, e, i, k) ==
    [n \in 1..(proc.quantity - 1) |->
        [Ev("addProcess") EXCEPT !.name = hostname, !.argv = ProcessArgv(proc),
                                 !.entry = e, !.inst = i, !.proc = k]]

\* the loop "for (i = 0; i < quantity; i++) manager_addNewVirtualProcess(...)"
ProcessCalls(proc, hostname, e, i, k) ==
    [n \in 1..proc.quantity |->
        [Ev("addProcess") EXCEPT !.name = hostname, !.argv = ProcessArgv(proc),
                                 !.entry = e, !.inst = i, !.proc = k]]

\* hostoptions_iterProcesses over _controller_registerProcessCallback, from
\* process entry k on: the calls made, and whether every path was resolved
RECURSIVE RegisterProcesses(_, _, _, _, _)
RegisterProcesses(procs, hostname, e, i, k) ==
    IF k > Len(procs) THEN [ok |-> TRUE, calls |-> << >>]
    ELSE IF procs[k].path = NULL THEN [ok |-> FALSE, calls |-> << >>]
    ELSE LET rest == RegisterProcesses(procs, hostname, e, i, k + 1)
         IN  [ok |-> rest.ok,
              calls |-> ProcessCalls(procs[k], hostname, e, i, k) \o rest.calls]

\* ipassignment_assignHostWithIp(assignment, node, ip): the address it binds, or
\* 0 when it fails (the address is in use, it is reserved, the node is missing)
AssignHostWithIp(assigned, ip) ==
    IF ip \in assigned THEN {0} ELSE {0, ip}

\* ipassignment_assignHost(assignment, node, &ip): an address that is not
\* assigned yet, or 0 when it fails
AssignHost(assigned) == {0} \cup (Addresses \ assigned)

\* one pass of the loop body of _controller_registerHostCallback for instance
\* i of entry e, given the address ip the IpAssignment produced (0: it failed):
\* the calls made, the errors logged, the addresses bound, and the result
RegisterInstance(host, e, i, ip) ==
    LET hostname == HostName(host.name, host.quantity, i)
        down     == ResolveBandwidth(nodeBw.down, host.bwDown)
        up       == ResolveBandwidth(nodeBw.up, host.bwUp)
        procs    == RegisterProcesses(host.procs, hostname, e, i, 1)
        assign   == [Ev("assignIp") EXCEPT !.name = hostname, !.ip = ip,
                                           !.entry = e, !.inst = i]
        addHost  == [Ev("addHost") EXCEPT !.name = hostname, !.ip = ip,
                                          !.down = down.v, !.up = up.v,
                                          !.entry = e, !.inst = i]
    IN  IF ip = 0
        THEN [ok |-> FALSE, calls |-> << >>, bound |-> {},
              errors |-> {"Could not register host"}]
        ELSE IF ~down.found
        THEN [ok |-> FALSE, calls |-> <<assign>>, bound |-> {ip},
              errors |-> {"No downstream bandwidth provided for host"}]
        ELSE IF ~up.found
        THEN [ok |-> FALSE, calls |-> <<assign>>, bound |-> {ip},
              errors |-> {"No upstream bandwidth provided for host"}]
        ELSE IF down.v = 0 \/ up.v = 0
        THEN [ok |-> FALSE, calls |-> <<assign>>, bound |-> {ip},
              errors |-> {"Bandwidth for host must be non-zero"}]
        ELSE IF ~procs.ok
        THEN [ok |-> FALSE, calls |-> <<assign, addHost>> \o procs.calls, bound |-> {ip},
              errors |-> {"couldn't find program path",
                          "Could not register processes for host"}]
        ELSE [ok |-> TRUE, calls |-> <<assign, addHost>> \o procs.calls, bound |-> {ip},
              errors |-> {}]

\* the error _controller_registerHosts logs for the pass that failed
PassError(pass) ==
    IF pass = 1 THEN "Could not register hosts with specific IP addresses"
    ELSE "Could not register remaining hosts"

\* ---------------------------------------------- controller_run: the steps

\* controller_run up to the result of _controller_loadNetworkGraph
run_loadNetworkGraph ==
    /\ pc = "created"
    /\ \E loaded \in BOOLEAN :
          /\ graph' = IF loaded THEN "loaded" ELSE "null"
          /\ ipAssignment' = {}
          /\ trace' = Append(trace, Ev("loadGraph"))
          /\ IF loaded
             THEN /\ dns' = "alive"
                  /\ logs' = logs \cup {"loading and initializing simulation data"}
                  /\ pc' = "initWindows"
                  /\ UNCHANGED exitCode
             ELSE /\ logs' = logs \cup {"loading and initializing simulation data",
                                        "fatal error loading graph"}
                  /\ pc' = "returned"
                  /\ exitCode' = 1
                  /\ UNCHANGED dns
    /\ UNCHANGED <<phase, config, minJumpTimeConfig, minJumpTime, nextMinJumpTime,
                   executeWindowStart, executeWindowEnd, endTime, aborted, lastOp,
                   ret, reported, succ>>
    /\ UNCHANGED <<hosts, nodeBw, routingInfo, manager, cursor, calls, otherVars>>

\* controller_run calls _controller_initializeTimeWindows
run_initializeTimeWindows ==
    /\ pc = "initWindows"
    /\ controller_initializeTimeWindows
    /\ pc' = "managerNew"
    /\ trace' = Append(trace, Ev("initWindows"))
    /\ UNCHANGED <<hosts, nodeBw, graph, ipAssignment, dns, routingInfo, manager,
                   cursor, exitCode, calls, otherVars>>

\* manager_new; utility_panic when it returns NULL
run_managerNew ==
    /\ pc = "managerNew"
    /\ \E created \in BOOLEAN :
          IF created
          THEN /\ manager' = "alive"
               /\ trace' = Append(trace, Ev("managerNew"))
               /\ logs' = logs \cup {"registering plugins and hosts"}
               /\ pc' = "register"
               /\ cursor' = [pass |-> 1, entry |-> 1, inst |-> 0]
               /\ UNCHANGED aborted
          ELSE /\ aborted' = TRUE
               /\ pc' = "aborted"
               /\ UNCHANGED <<manager, trace, logs, cursor>>
    /\ UNCHANGED <<phase, config, minJumpTimeConfig, minJumpTime, nextMinJumpTime,
                   executeWindowStart, executeWindowEnd, endTime, lastOp,
                   ret, reported, succ>>
    /\ UNCHANGED <<hosts, nodeBw, graph, ipAssignment, dns, routingInfo, exitCode, calls, otherVars>>

\* what no registration step changes
RegisterFrame ==
    /\ UNCHANGED winVars
    /\ UNCHANGED <<hosts, nodeBw, graph, dns, routingInfo, manager, calls, otherVars>>

\* the callback returned -1: config_iterHosts stops, _controller_registerHosts
\* returns -1 and controller_run returns 1
RegistrationFails(errors) ==
    /\ logs' = logs \cup errors \cup {PassError(cursor.pass), "Unable to register hosts"}
    /\ exitCode' = 1
    /\ pc' = "returned"
    /\ UNCHANGED cursor

\* the entry the registration stands at belongs to the current pass
InPass(host) == IpAddrSet(host) = RegisterIfAddressSpecified(cursor.pass)

\* _controller_registerHostCallback: "skip this host"
register_skipHost ==
    /\ pc = "register"
    /\ cursor.entry <= Len(hosts)
    /\ ~InPass(hosts[cursor.entry])
    /\ cursor' = [cursor EXCEPT !.entry = @ + 1, !.inst = 0]
    /\ UNCHANGED <<logs, ipAssignment, trace, exitCode, pc>>
    /\ RegisterFrame

\* _controller_registerHostCallback: an address with a quantity above 1
register_rejectHost ==
    /\ pc = "register"
    /\ cursor.entry <= Len(hosts)
    /\ InPass(hosts[cursor.entry])
    /\ IsAmbiguous(hosts[cursor.entry])
    /\ RegistrationFails({"Host has an IP address set with a quantity greater than 1"})
    /\ UNCHANGED <<ipAssignment, trace>>
    /\ RegisterFrame

\* _controller_registerHostCallback: one pass of the loop over the quantity
register_hostInstance ==
    /\ pc = "register"
    /\ cursor.entry <= Len(hosts)
    /\ LET host == hosts[cursor.entry]
       IN  /\ InPass(host)
           /\ ~IsAmbiguous(host)
           /\ cursor.inst < host.quantity
           /\ \E ip \in Addresses \cup {0} :
                 \* ipassignment_assignHostWithIp / ipassignment_assignHost
                 /\ IF IpAddrSet(host)
                    THEN ip \in AssignHostWithIp(ipAssignment, host.ipAddr)
                    ELSE ip \in AssignHost(ipAssignment)
                 /\ LET r == RegisterInstance(host, cursor.entry, cursor.inst, ip)
                    IN  /\ ipAssignment' = ipAssignment \cup r.bound
                        /\ trace' = trace \o r.calls
                        /\ IF r.ok
                           THEN /\ cursor' = [cursor EXCEPT !.inst = @ + 1]
                                /\ UNCHANGED <<logs, exitCode, pc>>
                           ELSE RegistrationFails(r.errors)
    /\ RegisterFrame

\* _controller_registerHostCallback: the loop is over, "no error"
register_hostDone ==
    /\ pc = "register"
    /\ cursor.entry <= Len(hosts)
    /\ InPass(hosts[cursor.entry])
    /\ ~IsAmbiguous(hosts[cursor.entry])
    /\ cursor.inst >= hosts[cursor.entry].quantity
    /\ cursor' = [cursor EXCEPT !.entry = @ + 1, !.inst = 0]
    /\ UNCHANGED <<logs, ipAssignment, trace, exitCode, pc>>
    /\ RegisterFrame

\* _controller_registerHosts: config_iterHosts returned 0
register_passDone ==
    /\ pc = "register"
    /\ cursor.entry > Len(hosts)
    /\ IF cursor.pass = 1
       THEN /\ cursor' = [pass |-> 2, entry |-> 1, inst |-> 0]
            /\ UNCHANGED pc
       ELSE /\ pc' = "routing"
            /\ UNCHANGED cursor
    /\ UNCHANGED <<logs, ipAssignment, trace, exitCode>>
    /\ RegisterFrame

\* routinginfo_new that keeps the graph
run_routingInfoNew_keepGraph ==
    /\ pc = "routing"
    /\ \E built \in BOOLEAN :
          IF built
          THEN /\ routingInfo' = "built"
               /\ trace' = Append(trace, Ev("routingInfoNew"))
               /\ logs' = logs \cup {"running simulation"}
               /\ pc' = "managerRun"
               /\ UNCHANGED <<exitCode, graph>>
          ELSE /\ logs' = logs \cup {"Unable to generate topology"}
               /\ trace' = Append(trace, Ev("routingInfoNew"))
               /\ exitCode' = 1
               /\ pc' = "returned"
               /\ UNCHANGED <<routingInfo, graph>>
    /\ UNCHANGED winVars
    /\ UNCHANGED <<hosts, nodeBw, ipAssignment, dns, manager, cursor, calls, otherVars>>

\* routinginfo_new, and on success networkgraph_free
run_routingInfoNew ==
    /\ pc = "routing"
    /\ \E built \in BOOLEAN :
          IF built
          THEN /\ routingInfo' = "built"
               /\ graph' = "null"
               /\ trace' = trace \o <<Ev("routingInfoNew"), Ev("freeGraph")>>
               /\ logs' = logs \cup {"running simulation"}
               /\ pc' = "managerRun"
               /\ UNCHANGED exitCode
          ELSE /\ logs' = logs \cup {"Unable to generate topology"}
               /\ trace' = Append(trace, Ev("routingInfoNew"))
               /\ exitCode' = 1
               /\ pc' = "returned"
               /\ UNCHANGED <<routingInfo, graph>>
    /\ UNCHANGED winVars
    /\ UNCHANGED <<hosts, nodeBw, ipAssignment, dns, manager, cursor, calls, otherVars>>

\* "start running each manager": manager_run is entered
run_managerRun ==
    /\ pc = "managerRun"
    /\ trace' = Append(trace, Ev("managerRun"))
    /\ pc' = "running"
    /\ UNCHANGED winVars
    /\ UNCHANGED <<logs, hosts, nodeBw, graph, ipAssignment, dns, routingInfo, manager,
                   cursor, exitCode, calls, otherVars>>

\* manager_run returned; return manager_free(controller->manager)
run_managerFree ==
    /\ pc = "running"
    /\ \E rc \in {0, 1} : exitCode' = rc
    /\ manager' = "freed"
    /\ trace' = Append(trace, Ev("managerFree"))
    /\ logs' = logs \cup {"simulation finished, cleaning up now"}
    /\ pc' = "returned"
    /\ UNCHANGED winVars
    /\ UNCHANGED <<hosts, nodeBw, graph, ipAssignment, dns, routingInfo, cursor, calls, otherVars>>

\* controller_free that warns about the graph whether it holds one or not
controller_free_alwaysWarns ==
    /\ pc = "returned"
    /\ routingInfo' = "null"
    /\ ipAssignment' = "null"
    /\ graph' = "null"
    /\ dns' = "null"
    /\ logs' = logs \cup {"simulation controller destroyed",
                          "network graph was not properly freed"}
    /\ trace' = trace \o (IF graph # "null" THEN <<Ev("freeGraph")>> ELSE << >>)
    /\ pc' = "freed"
    /\ UNCHANGED winVars
    /\ UNCHANGED <<hosts, nodeBw, manager, cursor, exitCode, calls, otherVars>>

\* controller_free(controller), after controller_run returned
controller_free ==
    /\ pc = "returned"
    /\ routingInfo' = "null"
    /\ ipAssignment' = "null"
    /\ graph' = "null"
    /\ dns' = "null"
    /\ logs' = logs \cup {"simulation controller destroyed"}
                    \cup (IF graph # "null"
                          THEN {"network graph was not properly freed"} ELSE {})
    /\ trace' = trace \o (IF graph # "null" THEN <<Ev("freeGraph")>> ELSE << >>)
    /\ pc' = "freed"
    /\ UNCHANGED winVars
    /\ UNCHANGED <<hosts, nodeBw, manager, cursor, exitCode, calls, otherVars>>

\* one window configuration, every host configuration
RunInit ==
    /\ config = [stopTime |-> G_MAXUINT64 - 1, runahead |-> 0, workers |-> 1]
    /\ \E c \in RunConfigs : hosts = c[1] /\ nodeBw = c[2]
    /\ controller_new
    /\ OthersIdle

RunNext ==
    \/ run_loadNetworkGraph
    \/ run_initializeTimeWindows
    \/ run_managerNew
    \/ register_skipHost
    \/ register_rejectHost
    \/ register_hostInstance
    \/ register_hostDone
    \/ register_passDone
    \/ run_routingInfoNew
    \/ run_managerRun
    \/ run_managerFree
    \/ controller_free

SpecRun == RunInit /\ [][RunNext]_vars

\* ================================ Controller entry points called by threads
\* controller_updateMinTimeJump and controller_managerFinishedCurrentRound take
\* no lock: a call made by a thread is a sequence of reads and writes of the
\* Controller's fields that the calls of other threads interleave with.

\* number of worker threads that report latencies
MaxThreads == 2

WorkerThreads == 1..MaxThreads

\* the window starts the Manager reports in this specification
RoundStarts == {0, 1}

\* the comparison that lets every observation through
NeedsUpdate_always(sim, next) == TRUE

\* "nextMinJumpTime == 0 || minPathLatencySimTime < nextMinJumpTime"
NeedsUpdate(sim, next) == next = 0 \/ sim < next

\* another worker is inside controller_updateMinTimeJump
OthersInside(t) == \E u \in WorkerThreads \ {t} : threads.upd[u].pc # "idle"

\* the Manager's workers exist, none is inside the Controller
ThreadsInit ==
    /\ config = [stopTime |-> G_MAXUINT64 - 1, runahead |-> 0, workers |-> MaxThreads]
    /\ hosts = << >>
    /\ nodeBw = NoNodeBw
    /\ controller_new
    /\ fs = NoFileserver /\ env = NoEnv /\ last = NoCall
    /\ threads = [upd       |-> [t \in WorkerThreads |-> [pc |-> "idle", sim |-> 0]],
                  mgr       |-> [pc |-> "idle", arg |-> 0],
                  completed |-> {},
                  raced     |-> FALSE,
                  commit    |-> [done |-> FALSE, seen |-> {}, raced |-> FALSE]]

ThreadFrame == UNCHANGED <<logs, runVars, calls, fs, env, last>>

\* controller_updateMinTimeJump, entry: the cast and the multiplication
worker_enter(t) ==
    /\ phase = "Running" /\ ~aborted
    /\ threads.upd[t].pc = "idle"
    /\ \E lat \in Latencies :
          threads' = [threads EXCEPT
                         !.upd[t] = [pc |-> "compare", sim |-> LatencyToSimTime(lat)],
                         !.raced = @ \/ OthersInside(t)]
    /\ UNCHANGED winVars
    /\ ThreadFrame

\* controller_updateMinTimeJump: the if and the utility_assert
worker_compare(t) ==
    /\ ~aborted
    /\ threads.upd[t].pc = "compare"
    /\ LET sim == threads.upd[t].sim
       IN  IF NeedsUpdate(sim, nextMinJumpTime)
           THEN IF sim > 0
                THEN /\ threads' = [threads EXCEPT !.upd[t].pc = "write"]
                     /\ UNCHANGED aborted
                ELSE /\ aborted' = TRUE
                     /\ UNCHANGED threads
           ELSE /\ threads' = [threads EXCEPT !.upd[t].pc = "idle",
                                              !.completed = @ \cup {sim}]
                /\ UNCHANGED aborted
    /\ UNCHANGED <<phase, config, minJumpTimeConfig, minJumpTime, nextMinJumpTime,
                   executeWindowStart, executeWindowEnd, endTime, lastOp, ret,
                   reported, succ>>
    /\ ThreadFrame

\* controller_updateMinTimeJump: controller->nextMinJumpTime = minPathLatencySimTime
worker_write(t) ==
    /\ ~aborted
    /\ threads.upd[t].pc = "write"
    /\ nextMinJumpTime' = threads.upd[t].sim
    /\ threads' = [threads EXCEPT !.upd[t].pc = "idle",
                                  !.completed = @ \cup {threads.upd[t].sim}]
    /\ logs' = logs \cup {"updated topology minimum time jump"}
    /\ lastOp' = "update"
    /\ UNCHANGED <<phase, config, minJumpTimeConfig, minJumpTime,
                   executeWindowStart, executeWindowEnd, endTime, aborted, ret,
                   reported, succ>>
    /\ UNCHANGED <<runVars, calls, fs, env, last>>

\* controller_managerFinishedCurrentRound: if (controller->nextMinJumpTime != 0)
manager_check ==
    /\ phase = "Running" /\ ~aborted
    /\ threads.mgr.pc = "idle"
    /\ \E t \in RoundStarts :
          threads' = [threads EXCEPT
                         !.mgr = [pc  |-> IF nextMinJumpTime # 0 THEN "commit" ELSE "window",
                                  arg |-> t]]
    /\ UNCHANGED winVars
    /\ ThreadFrame

\* controller_managerFinishedCurrentRound: minJumpTime = nextMinJumpTime
manager_commit ==
    /\ ~aborted
    /\ threads.mgr.pc = "commit"
    /\ minJumpTime' = nextMinJumpTime
    /\ threads' = [threads EXCEPT
                      !.mgr.pc = "window",
                      !.commit = [done |-> TRUE, seen |-> threads.completed,
                                  raced |-> threads.raced]]
    /\ UNCHANGED <<phase, config, minJumpTimeConfig, nextMinJumpTime,
                   executeWindowStart, executeWindowEnd, endTime, aborted, lastOp, ret,
                   reported, succ>>
    /\ ThreadFrame

\* controller_managerFinishedCurrentRound: the new window and the return value
manager_window ==
    /\ ~aborted
    /\ threads.mgr.pc = "window"
    /\ LET newStart == threads.mgr.arg
           sum      == WrapU64(newStart + GetMinTimeJump(minJumpTime, minJumpTimeConfig))
           newEnd   == ClampToEndTime(sum, endTime)
       IN  /\ executeWindowStart' = newStart
           /\ executeWindowEnd' = newEnd
           /\ ret' = [start |-> newStart, end |-> newEnd,
                      keepRunning |-> KeepRunning(newStart, newEnd), called |-> TRUE]
           /\ succ' = [isSuccessor |-> ret.called,
                       prevKeepRunning |-> ret.called /\ ret.keepRunning,
                       contract |-> ret.called /\ newStart >= ret.end,
                       nonDecreasing |-> ret.called /\ newStart >= ret.start]
    /\ lastOp' = "round"
    /\ threads' = [threads EXCEPT !.mgr.pc = "idle"]
    /\ UNCHANGED <<phase, config, minJumpTimeConfig, minJumpTime, nextMinJumpTime,
                   endTime, aborted, reported>>
    /\ ThreadFrame

WorkerEnters == \E t \in WorkerThreads : worker_enter(t)
WorkerCompares == \E t \in WorkerThreads : worker_compare(t)
WorkerWrites == \E t \in WorkerThreads : worker_write(t)

ThreadsNext ==
    \/ WindowsInitialized
    \/ WorkerEnters
    \/ WorkerCompares
    \/ WorkerWrites
    \/ manager_check
    \/ manager_commit
    \/ manager_window

SpecThreads == ThreadsInit /\ [][ThreadsNext]_vars

\* ============================================ the file-transfer plug-in
\* ------------------------------------------------------ fileserver_codetoa

\* number of elements of fileserver_code_strings
NumCodes == 14
\* sizeof(const char*), the size of one element of the table
PointerSize == 8
\* how far below 0 and above the size of the table the arguments go
CodeMargin == 8

\* "these MUST be synced with fileserver_codes"
fileserver_code_strings ==
    <<"FS_SUCCESS", "FS_CLOSED", "FS_ERR_INVALID", "FS_ERR_FATAL", "FS_ERR_BADSD",
      "FS_ERR_WOULDBLOCK", "FS_ERR_BUFSPACE", "FS_ERR_SOCKET", "FS_ERR_BIND",
      "FS_ERR_LISTEN", "FS_ERR_ACCEPT", "FS_ERR_RECV", "FS_ERR_SEND", "FS_ERR_CLOSE">>

\* sizeof(fileserver_code_strings): the size of the array in bytes
SizeofCodeStrings == NumCodes * PointerSize

\* the values an enum fileserver_code argument is given
CodeArgs == (0 - CodeMargin)..(SizeofCodeStrings + CodeMargin)

\* fileserver_code_strings[index]: an element of the table, or, past its end,
\* whatever the read of the memory behind it produces
ReadCodeString(index) ==
    IF index < NumCodes
    THEN {[ret |-> fileserver_code_strings[index + 1], outside |-> FALSE]}
    ELSE {[ret |-> r, outside |-> TRUE] : r \in {NULL, "(wild pointer)", "(fault)"}}

\* fileserver_codetoa(fsc): the results the call can have
fileserver_codetoa(fsc) ==
    LET index == fsc
    IN  IF index >= 0 /\ index < SizeofCodeStrings
        THEN ReadCodeString(index)
        ELSE {[ret |-> NULL, outside |-> FALSE]}

\* a caller asks for the name of a code
CallCodetoa ==
    /\ \E fsc \in CodeArgs : \E r \in fileserver_codetoa(fsc) :
          last' = [op |-> "codetoa", arg |-> fsc, ret |-> r.ret, outside |-> r.outside]
    /\ UNCHANGED <<winVars, logs, runVars, calls, threads, fs, env>>

\* a Controller that is not run; only the plug-in acts
PluginInit ==
    /\ config = [stopTime |-> 0, runahead |-> 0, workers |-> 0]
    /\ hosts = << >>
    /\ nodeBw = NoNodeBw
    /\ controller_new
    /\ OthersIdle

SpecCodes == PluginInit /\ [][CallCodetoa]_vars

\* ------------------------------------------- fileserver_activate: inputs
\* sizeof(c->request.buf) and sizeof(c->reply.buf), scaled
RequestBufSize == 4
ReplyBufSize == 4
\* the length of FT_HTTP_200_FMT without the digits of the file length, and
\* FT_HTTP_404_LEN, scaled
HttpHeaderLen == 1
Http404Len == 2

\* socket descriptors: the listener and the ones accept() hands out; -1 is no
\* descriptor and UnknownSocket is a descriptor the server never saw
ListenSocket == 3
ConnSockets == {ListenSocket + 1, ListenSocket + 2}
UnknownSocket == ListenSocket + 3
\* the listener accepts as many connections in a run as there are descriptors
MaxAccepts == Cardinality(ConnSockets)
ActivateArgs == {0 - 1, UnknownSocket} \cup {ListenSocket} \cup ConnSockets

\* snprintf "%lu": the number of decimal digits of n
RECURSIVE NumDigits(_)
NumDigits(n) == IF n < 10 THEN 1 ELSE 1 + NumDigits(n \div 10)

\* what snprintf(c->reply.buf, sizeof(c->reply.buf), FT_HTTP_200_FMT, f_length) returns
HeaderLen(flen) == HttpHeaderLen + NumDigits(flen)

\* the room the header of a short file leaves in the reply buffer
FirstChunk == ReplyBufSize - HeaderLen(0)

\* file lengths: empty, shorter than the room behind the header, exactly that
\* room, one more, and that room plus one whole buffer
FileLens == {0, 1, FirstChunk, FirstChunk + 1, FirstChunk + ReplyBufSize}

\* what a peer sends on a connection: one request of len bytes that asks for an
\* existing file of flen bytes, for a file that cannot be opened, or is malformed
Peers ==
    [kind : {"file"}, flen : FileLens, len : {1, RequestBufSize - 1}]
        \cup [kind : {"missing", "malformed"}, flen : {0}, len : {2, RequestBufSize}]

\* the ghost record of a connection: its peer, the request bytes still to
\* arrive, whether the system failed a call on it (recv, send, fread, snprintf),
\* and what was sent and counted for it
\* the first peer to connect is any of Peers; the later ones ask for the
\* one-byte file in a one-byte request
LaterPeers == [kind : {"file"}, flen : {1}, len : {1}]
PeersFor(id) == IF id = 1 THEN Peers ELSE LaterPeers

NewPeer(p) ==
    [kind |-> p.kind, flen |-> p.flen, len |-> p.len, pending |-> p.len,
     fault |-> FALSE, sent |-> 0, replies |-> 0, fopens |-> 0, fcloses |-> 0,
     closes |-> 0]

\* malloc(sizeof(fileserver_connection_t)) with sockd and state set; the other
\* fields are written in FS_IDLE before they are read
NewConnection(sockd, id) ==
    [sockd |-> sockd, id |-> id, state |-> "FS_IDLE",
     request |-> [buf_write_offset |-> 0, buf_read_offset |-> 0],
     reply |-> [f |-> "(uninitialised)", f_length |-> 0, f_read_offset |-> 0,
                buf_read_offset |-> 0, buf_write_offset |-> 0]]

\* ------------------------------------- fileserver_activate: the machine
\* A call works on m: the connection c, the ghost record of its peer, and the
\* three counters of the fileserver.  It ends in a set of possible results, one
\* for each way the system calls can answer.

\* return code without closing the connection
Returned(m, code) == [code |-> code, closed |-> FALSE, m |-> m]

\* the system failed a call on this connection
Fault(m) == [m EXCEPT !.peer.fault = TRUE]

\* fileserve_connection_close that leaves an open reply file open
Closed_leaksFile(m, code) ==
    [code |-> code, closed |-> TRUE, m |-> [m EXCEPT !.peer.closes = @ + 1]]

\* fileserve_connection_close(fs, c), followed by return code
Closed(m, code) ==
    [code |-> code, closed |-> TRUE,
     m |-> [m EXCEPT !.peer.closes = @ + 1,
                     !.peer.fcloses = IF m.c.reply.f # NULL THEN @ + 1 ELSE @]]

\* feof(c->reply.f) after fread asked for space bytes and got bytes
HitsEof(bytes, space) == bytes < space

RECURSIVE Dispatch(_)

\* case FS_REPLY_SEND
StateReplySend(m) ==
    LET sendlen == m.c.reply.buf_write_offset - m.c.reply.buf_read_offset
        Sent(bytes) ==
            LET m1 == [m EXCEPT !.c.reply.buf_read_offset = @ + bytes,
                                !.bytes_sent = @ + bytes,
                                !.peer.sent = @ + bytes]
                m2 == [m1 EXCEPT !.c.reply.buf_read_offset = 0,
                                 !.c.reply.buf_write_offset = 0]
            IN  IF m1.c.reply.buf_read_offset = m1.c.reply.buf_write_offset
                THEN IF m.c.reply.f = NULL
                     THEN {Returned([m2 EXCEPT !.replies_sent = @ + 1,
                                               !.peer.replies = @ + 1,
                                               !.c.state = "FS_IDLE"], "FS_SUCCESS")}
                     ELSE Dispatch(m2)
                ELSE Dispatch(m1)
    IN  IF sendlen = 0
        THEN \* send() of no bytes returns 0: "other side closed"
             {Closed(m, "FS_CLOSED")}
        ELSE UNION {Sent(b) : b \in 1..sendlen}
                 \cup {Returned(m, "FS_ERR_WOULDBLOCK"),
                       Closed(Fault(m), "FS_ERR_SEND"),
                       Closed(Fault(m), "FS_CLOSED")}

\* case FS_REPLY_FILE_CONTINUE, falling through to FS_REPLY_SEND
StateReplyFileContinue(m) ==
    LET done_reading == m.c.reply.f_read_offset = m.c.reply.f_length
        space == ReplyBufSize - m.c.reply.buf_write_offset
        left  == m.c.reply.f_length - m.c.reply.f_read_offset
        bytes == IF left < space THEN left ELSE space
        m1 == [m EXCEPT !.c.reply.buf_write_offset = @ + bytes,
                        !.c.reply.f_read_offset = @ + bytes]
        m2 == [m1 EXCEPT !.c.reply.f = NULL, !.c.state = "FS_REPLY_SEND",
                         !.peer.fcloses = @ + 1]
    IN  IF space > 0 /\ ~done_reading
        THEN {Closed(Fault(m1), "FS_ERR_FATAL")}
                 \cup StateReplySend(IF HitsEof(bytes, space) THEN m2 ELSE m1)
        ELSE StateReplySend(m)

\* case FS_REPLY_FILE_START, falling through to FS_REPLY_FILE_CONTINUE
StateReplyFileStart(m) ==
    LET m1 == [m EXCEPT !.c.reply.f = "open", !.c.reply.f_length = m.peer.flen,
                        !.peer.fopens = @ + 1]
        bytes == HeaderLen(m.peer.flen)
    IN  IF m.peer.kind # "file"
        THEN Dispatch([m EXCEPT !.c.reply.f = NULL, !.c.state = "FS_REPLY_404_START"])
        ELSE {Closed(Fault(m1), "FS_ERR_FATAL")}
                 \cup IF bytes >= ReplyBufSize
                      THEN {Closed(m1, "FS_ERR_BUFSPACE")}
                      ELSE StateReplyFileContinue(
                               [m1 EXCEPT !.c.reply.buf_write_offset = bytes,
                                          !.c.state = "FS_REPLY_FILE_CONTINUE"])

\* case FS_REPLY_404_START
StateReply404Start(m) ==
    IF ReplyBufSize < Http404Len
    THEN {Closed(m, "FS_ERR_BUFSPACE")}
    ELSE Dispatch([m EXCEPT !.c.reply.buf_write_offset = Http404Len,
                            !.c.reply.f = NULL,
                            !.c.state = "FS_REPLY_SEND"])

\* case FS_REQUEST
StateRequest(m) ==
    LET space == RequestBufSize - m.c.request.buf_write_offset - 1
        most  == IF m.peer.pending < space THEN m.peer.pending ELSE space
        Received(bytes) ==
            LET m1 == [m EXCEPT !.c.request.buf_write_offset = @ + bytes,
                                !.bytes_received = @ + bytes,
                                !.peer.pending = @ - bytes]
            IN  IF m1.peer.pending # 0
                THEN {Returned([m1 EXCEPT !.c.state = "FS_REQUEST"], "FS_SUCCESS")}
                ELSE IF m.peer.kind = "malformed"
                THEN Dispatch([m1 EXCEPT !.c.state = "FS_REPLY_404_START"])
                ELSE Dispatch([m1 EXCEPT !.c.state = "FS_REPLY_FILE_START"])
    IN  IF space <= 0
        THEN {Closed(m, "FS_ERR_BUFSPACE")}
        ELSE UNION {Received(b) : b \in 1..most}
                 \cup {Returned(m, "FS_ERR_WOULDBLOCK"),
                       Closed(Fault(m), "FS_ERR_RECV"),
                       Closed(Fault(m), "FS_CLOSED")}

\* case FS_IDLE, falling through to FS_REQUEST
StateIdle(m) ==
    StateRequest([m EXCEPT !.c.request = [buf_write_offset |-> 0, buf_read_offset |-> 0],
                           !.c.reply = [f |-> NULL, f_length |-> 0, f_read_offset |-> 0,
                                        buf_read_offset |-> 0, buf_write_offset |-> 0]])

\* "start: switch (c->state)"
Dispatch(m) ==
    CASE m.c.state = "FS_IDLE"                -> StateIdle(m)
      [] m.c.state = "FS_REQUEST"             -> StateRequest(m)
      [] m.c.state = "FS_REPLY_404_START"     -> StateReply404Start(m)
      [] m.c.state = "FS_REPLY_FILE_START"    -> StateReplyFileStart(m)
      [] m.c.state = "FS_REPLY_FILE_CONTINUE" -> StateReplyFileContinue(m)
      [] m.c.state = "FS_REPLY_SEND"          -> StateReplySend(m)
      [] OTHER                                -> {Returned(m, "FS_ERR_FATAL")}

\* ------------------------------------- fileserver_activate: the actions
\* accept() hands out the lowest descriptor that is not open
LowestFree(open) ==
    CHOOSE s \in ConnSockets \ open : \A o \in ConnSockets \ open : s <= o

\* fileserver_accept_one succeeding for a peer p
AcceptOne(f, e, p) ==
    LET sockd == LowestFree(e.open)
        id == e.accepts + 1
    IN  [fs |-> [f EXCEPT !.connections =
                     [s \in DOMAIN f.connections \cup {sockd} |->
                         IF s = sockd THEN NewConnection(sockd, id)
                                      ELSE f.connections[s]]],
         env |-> [e EXCEPT !.open = @ \cup {sockd},
                           !.accepts = id,
                           !.peer = Append(@, NewPeer(p))]]

\* the accept loop: every number of waiting peers the bound allows
RECURSIVE AcceptLoop(_, _)
AcceptLoop(f, e) ==
    {[fs |-> f, env |-> e]}
        \cup IF e.accepts < MaxAccepts /\ ConnSockets \ e.open # {}
             THEN UNION {AcceptLoop(AcceptOne(f, e, p).fs, AcceptOne(f, e, p).env)
                            : p \in PeersFor(e.accepts + 1)}
             ELSE {}

\* what the caller of fileserver_activate saw
Activated(sockd, code, id) ==
    [op |-> "activate", sockd |-> sockd, code |-> code, id |-> id]

PluginFrame == UNCHANGED <<winVars, logs, runVars, calls, threads>>

\* sockd < 0
activate_invalid(sockd) ==
    /\ sockd < 0
    /\ last' = Activated(sockd, "FS_ERR_INVALID", 0)
    /\ UNCHANGED <<fs, env>>
    /\ PluginFrame

\* sockd == fs->listen_sockd
activate_listener(sockd) ==
    /\ sockd >= 0
    /\ sockd = fs.listen_sockd
    /\ \E r \in AcceptLoop(fs, env) :
       \E code \in {"FS_ERR_WOULDBLOCK", "FS_ERR_ACCEPT"} :
          /\ fs' = r.fs
          /\ env' = r.env
          /\ last' = Activated(sockd, code, 0)
    /\ PluginFrame

\* the lookup in fs->connections finds nothing
activate_badsd(sockd) ==
    /\ sockd >= 0
    /\ sockd # fs.listen_sockd
    /\ sockd \notin DOMAIN fs.connections
    /\ last' = Activated(sockd, "FS_ERR_BADSD", 0)
    /\ UNCHANGED <<fs, env>>
    /\ PluginFrame

\* the state machine runs on the connection found
activate_connection(sockd) ==
    /\ sockd >= 0
    /\ sockd # fs.listen_sockd
    /\ sockd \in DOMAIN fs.connections
    /\ LET c == fs.connections[sockd]
           m == [c |-> c, peer |-> env.peer[c.id],
                 bytes_sent |-> fs.bytes_sent,
                 bytes_received |-> fs.bytes_received,
                 replies_sent |-> fs.replies_sent]
       IN  \E r \in Dispatch(m) :
              /\ fs' = [fs EXCEPT
                    !.connections =
                        IF r.closed
                        THEN [s \in DOMAIN fs.connections \ {sockd} |-> fs.connections[s]]
                        ELSE [fs.connections EXCEPT ![sockd] = r.m.c],
                    !.bytes_sent = r.m.bytes_sent,
                    !.bytes_received = r.m.bytes_received,
                    !.replies_sent = r.m.replies_sent]
              /\ env' = [env EXCEPT
                    !.open = IF r.closed THEN @ \ {sockd} ELSE @,
                    !.peer[c.id] = r.m.peer]
              /\ last' = Activated(sockd, r.code, c.id)
    /\ PluginFrame

ActivateInvalid == \E sockd \in ActivateArgs : activate_invalid(sockd)
ActivateListener == \E sockd \in ActivateArgs : activate_listener(sockd)
ActivateBadsd == \E sockd \in ActivateArgs : activate_badsd(sockd)
ActivateConnection == \E sockd \in ActivateArgs : activate_connection(sockd)

\* fileserver_activate(fs, sockd)
fileserver_activate ==
    \/ ActivateInvalid
    \/ ActivateListener
    \/ ActivateBadsd
    \/ ActivateConnection

\* the state fileserver_start leaves behind when it succeeds
fileserver_start ==
    /\ fs = [listen_sockd |-> ListenSocket, connections |-> << >>,
             bytes_sent |-> 0, bytes_received |-> 0, replies_sent |-> 0]
    /\ env = NoEnv
    /\ last = NoCall
    /\ threads = NoThreads

FsInit ==
    /\ config = [stopTime |-> 0, runahead |-> 0, workers |-> 0]
    /\ hosts = << >>
    /\ nodeBw = NoNodeBw
    /\ controller_new
    /\ fileserver_start

SpecFs == FsInit /\ [][fileserver_activate]_vars

TypeOK ==
    /\ phase \in {"Created", "Running"}
    /\ minJumpTimeConfig \in SimulationTime
    /\ minJumpTime \in SimulationTime
    /\ nextMinJumpTime \in SimulationTime
    /\ executeWindowStart \in SimulationTime
    /\ executeWindowEnd \in SimulationTime
    /\ endTime \in SimulationTime
    /\ aborted \in BOOLEAN
    /\ reported \in 0..MaxLatency
    /\ lastOp \in {"new", "init", "update", "round"}
    /\ ret.called \in BOOLEAN
    /\ succ.isSuccessor \in BOOLEAN

\* ------------------------------------------------------------- properties

Min(a, b) == IF a < b THEN a ELSE b
Max(a, b) == IF a > b THEN a ELSE b

\* the width of the stored window, as a mathematical difference
Width == executeWindowEnd - executeWindowStart

\* the lookahead getMinTimeJump() returns in the current state
CurrentJump == GetMinTimeJump(minJumpTime, minJumpTimeConfig)

\* a latency of lat/SubMs ms in ticks, exactly (latency x one millisecond)
ExactSimTime(lat) == (lat * SIMTIME_ONE_MILLISECOND) \div SubMs

\* C1: every managerFinishedCurrentRound call made after run() initialised the
\* time windows returns a windowEnd, and stores an executeWindowEnd, that is
\* less than or equal to endTime.
C1_WindowEndWithinEndTime ==
    (phase = "Running" /\ ret.called) =>
        (ret.end <= endTime /\ executeWindowEnd <= endTime)

\* a round call whose start + lookahead ran over endTime and was cut there
C1_Witness ==
    /\ lastOp = "round"
    /\ ret.keepRunning
    /\ executeWindowStart + CurrentJump > endTime
    /\ ret.end = endTime

\* C2 (as claimed): the initial window, the one in force before any
\* managerFinishedCurrentRound call, does not end after endTime.
C2_InitialWindowWithinEndTime ==
    (phase = "Running" /\ ~ret.called) => executeWindowEnd <= endTime

\* C2 (amended): the initial window starts at 0 and ends at getMinTimeJump(),
\* which is max(10 ms, runahead), when workers > 0 and at G_MAXUINT64 when
\* workers = 0; it is not cut at endTime, so it ends at or before endTime
\* exactly when stopTime is at least that value.
C2_InitialWindowShape ==
    (phase = "Running" /\ ~ret.called) =>
        LET first == IF config.workers > 0
                     THEN Max(DefaultJumpMs * SIMTIME_ONE_MILLISECOND, config.runahead)
                     ELSE G_MAXUINT64
        IN  /\ executeWindowStart = 0
            /\ executeWindowEnd = first
            /\ (executeWindowEnd <= endTime) <=> (config.stopTime >= first)

\* a multi-threaded run whose stop time is below the lookahead: the initial
\* window ends after endTime
C2_Witness ==
    /\ lastOp = "init"
    /\ config.workers > 0
    /\ config.stopTime > 0
    /\ executeWindowEnd > endTime

\* C3 (as claimed): whenever a call reports minNextEventTime >= the windowEnd
\* the previous call returned, its windowStart is not below the previous
\* windowStart.
C3_StartNonDecreasing ==
    (succ.isSuccessor /\ succ.contract) => succ.nonDecreasing

\* C3 (amended): whenever the previous call returned keepRunning = true and
\* this call reports minNextEventTime >= the windowEnd that call returned, its
\* windowStart is not below the previous windowStart.
C3_StartNonDecreasingWhileRunning ==
    (succ.isSuccessor /\ succ.prevKeepRunning /\ succ.contract) => succ.nonDecreasing

\* two successive calls, the first returning keepRunning, the second keeping
\* the worker contract and moving the window forward
C3_Witness ==
    /\ lastOp = "round"
    /\ succ.isSuccessor /\ succ.prevKeepRunning /\ succ.contract
    /\ ret.keepRunning
    /\ executeWindowStart > 0

\* C4: a window returned with keepRunning = true is at most getMinTimeJump()
\* wide, and exactly that wide whenever endTime - windowStart is at least
\* getMinTimeJump().
C4_WidthAtMostJump ==
    (ret.called /\ ret.keepRunning) =>
        /\ ret.end - ret.start <= CurrentJump
        /\ (endTime - ret.start >= CurrentJump) => (ret.end - ret.start = CurrentJump)

\* a full-width window sized by a committed observation
C4_Witness ==
    /\ lastOp = "round"
    /\ ret.keepRunning
    /\ minJumpTime > 0
    /\ endTime - ret.start > CurrentJump
    /\ ret.end - ret.start = CurrentJump

\* C5 (as claimed): with minJumpTimeConfig > 0, every window exposed while
\* windowStart < endTime is at least minJumpTimeConfig wide.
C5_RunaheadFloor ==
    (phase = "Running" /\ minJumpTimeConfig > 0 /\ executeWindowStart < endTime) =>
        Width >= minJumpTimeConfig

\* C5 (amended): with minJumpTimeConfig > 0, the initial window and every
\* window returned with keepRunning = true are at least
\* min(minJumpTimeConfig, endTime - windowStart) wide: the floor holds unless
\* the remaining horizon is smaller than it.
C5_RunaheadFloorUpToHorizon ==
    (phase = "Running" /\ minJumpTimeConfig > 0 /\ (~ret.called \/ ret.keepRunning)) =>
        Width >= Min(minJumpTimeConfig, endTime - executeWindowStart)

\* the floor at work: a committed observation below the runahead, and a
\* window as wide as the runahead
C5_Witness ==
    /\ lastOp = "round"
    /\ ret.keepRunning
    /\ minJumpTime > 0
    /\ minJumpTime < minJumpTimeConfig
    /\ Width = minJumpTimeConfig

\* C6: managerFinishedCurrentRound returns windowStart = minNextEventTime,
\* windowEnd = min(minNextEventTime + getMinTimeJump(), endTime) with the sum
\* taken in the integers, and keepRunning = (windowStart < windowEnd).
C6_MathematicalWindow ==
    ret.called =>
        /\ ret.start = executeWindowStart
        /\ ret.end = Min(ret.start + CurrentJump, endTime)
        /\ ret.keepRunning = (ret.start < ret.end)

\* C7: in every reachable state getMinTimeJump() is max(base, minJumpTimeConfig),
\* base being minJumpTime if it is positive and 10 ms otherwise.
C7_MinTimeJumpIsMax ==
    CurrentJump =
        Max(IF minJumpTime > 0 THEN minJumpTime
            ELSE DefaultJumpMs * SIMTIME_ONE_MILLISECOND,
            minJumpTimeConfig)

\* an observation below a configured runahead has been committed, and
\* getMinTimeJump() is the runahead
C7_Witness ==
    /\ reported # 0
    /\ minJumpTime > 0
    /\ minJumpTimeConfig > minJumpTime
    /\ CurrentJump = minJumpTimeConfig

\* C8: updateMinTimeJump changes nextMinJumpTime at most: minJumpTime, the
\* window and getMinTimeJump() stay as they are; the next round call takes a
\* non-zero nextMinJumpTime over into minJumpTime before it sizes the window,
\* so a window it returns with keepRunning is min(new lookahead, remaining
\* horizon) wide.
C8_EffectAtNextBoundary ==
    [][ /\ (lastOp' = "update") =>
              /\ minJumpTime' = minJumpTime
              /\ executeWindowStart' = executeWindowStart
              /\ executeWindowEnd' = executeWindowEnd
              /\ GetMinTimeJump(minJumpTime', minJumpTimeConfig') = CurrentJump
        /\ (lastOp' = "round" /\ nextMinJumpTime # 0) =>
              /\ minJumpTime' = nextMinJumpTime
              /\ ret'.keepRunning =>
                    ret'.end - ret'.start =
                        Min(GetMinTimeJump(nextMinJumpTime, minJumpTimeConfig),
                            endTime - ret'.start)
      ]_vars

\* an earlier observation was committed and sized the current window; a
\* smaller one is pending and has changed neither
C8_Witness ==
    /\ lastOp = "update"
    /\ ret.keepRunning
    /\ nextMinJumpTime # 0
    /\ nextMinJumpTime < minJumpTime
    /\ Width = minJumpTime

\* C9: after updateMinTimeJump calls with positive latencies, nextMinJumpTime
\* is the smallest reported latency times one millisecond, and no call aborted.
C9_ExactConversion ==
    /\ ~aborted
    /\ reported # 0 => nextMinJumpTime = ExactSimTime(reported)

\* C10 (as claimed): a window returned by managerFinishedCurrentRound is no
\* wider than the smallest latency reported before the call.
C10_SafeLookahead ==
    (lastOp = "round" /\ reported # 0) => Width <= ExactSimTime(reported)

\* C10 (amended): a window returned by managerFinishedCurrentRound after some
\* latency was reported is no wider than max(smallest reported latency,
\* minJumpTimeConfig).
C10_SafeLookaheadUpToRunahead ==
    (lastOp = "round" /\ reported # 0) =>
        Width <= Max(ExactSimTime(reported), minJumpTimeConfig)

\* no runahead configured: the window is as wide as the committed observation,
\* which is not above the smallest reported latency
C10_Witness ==
    /\ lastOp = "round"
    /\ reported # 0
    /\ minJumpTimeConfig = 0
    /\ ret.keepRunning
    /\ Width = minJumpTime
    /\ Width <= ExactSimTime(reported)

\* C11: in the Manager's loop with a constant lookahead L and reports equal to
\* the previous windowEnd, the k-th call returns windowEnd = min(k*L, endTime),
\* and keepRunning is FALSE exactly at the call whose minNextEventTime has
\* reached endTime.
C11_LoopWindowEnds ==
    ret.called =>
        /\ ret.end = Min(calls * CurrentJump, endTime)
        /\ (~ret.keepRunning) <=> (ret.start >= endTime)

\* ------------------------------------------------ registration: the claims
\* positions of the trace holding a call of the given kind
CallsOf(kind) == {k \in DOMAIN trace : trace[k].ev = kind}

\* the call at position k of the trace was made for an entry with an explicit address
ForExplicitEntry(k) == IpAddrSet(hosts[trace[k].entry])

\* C12 (as stated): no auto-allocated host instance ever receives an address
\* that some entry of the configuration configured explicitly.
C12_AutoAvoidsEveryConfiguredAddress ==
    \A k \in CallsOf("assignIp") :
        ~ForExplicitEntry(k) =>
            \A e \in DOMAIN hosts :
                IpAddrSet(hosts[e]) => trace[k].ip # hosts[e].ipAddr

\* C12 (amended): every binding of an explicit address precedes every
\* auto-allocation, in every declaration order, and no auto-allocated instance
\* receives the address of an entry with an explicit address and quantity 1.
C12_TwoPassRegistration ==
    \A k \in CallsOf("assignIp") :
        ~ForExplicitEntry(k) =>
            /\ \A j \in CallsOf("assignIp") : ForExplicitEntry(j) => j < k
            /\ \A e \in DOMAIN hosts :
                  (IpAddrSet(hosts[e]) /\ hosts[e].quantity = 1)
                      => trace[k].ip # hosts[e].ipAddr

\* both passes are over for a configuration that declares an auto-allocated
\* entry before an entry with an explicit address, each with one host
C12_Witness ==
    /\ pc = "routing"
    /\ Len(hosts) = 2
    /\ ~IpAddrSet(hosts[1]) /\ hosts[1].quantity = 1
    /\ IpAddrSet(hosts[2]) /\ hosts[2].quantity = 1
    /\ \E j, k \in CallsOf("assignIp") : ForExplicitEntry(j) /\ ~ForExplicitEntry(k)

\* the entries that set one address for several hosts
AmbiguousEntries ==
    {e \in DOMAIN hosts : hosts[e].ipAddr # 0 /\ hosts[e].quantity > 1}

\* run() is over
RunReturned == pc \in {"returned", "freed"}

\* C13 (as stated): if any entry has an explicit IP and quantity > 1, run()
\* returns non-zero and no host at all has been registered: no
\* addNewVirtualHost call and no IP binding has happened.
C13_NothingRegistered ==
    (RunReturned /\ AmbiguousEntries # {}) =>
        /\ exitCode # 0
        /\ CallsOf("addHost") = {}
        /\ CallsOf("assignIp") = {}

\* C13 (amended): if any entry has an explicit IP and quantity > 1, run()
\* returns 1 and never invokes manager.run; the only hosts bound or added are
\* those of entries with an explicit IP declared before the first such entry.
C13_AmbiguousAddressRejected ==
    AmbiguousEntries # {} =>
        /\ RunReturned => exitCode = 1
        /\ CallsOf("managerRun") = {}
        /\ \A k \in CallsOf("assignIp") \cup CallsOf("addHost") :
              /\ hosts[trace[k].entry].ipAddr # 0
              /\ \A e \in AmbiguousEntries : trace[k].entry < e

\* run() returned after rejecting the second entry, having added the host of
\* the first entry
C13_Witness ==
    /\ pc = "returned"
    /\ AmbiguousEntries = {2}
    /\ "Host has an IP address set with a quantity greater than 1" \in logs
    /\ \E k \in CallsOf("addHost") : trace[k].entry = 1

\* the callback returned 0 for entry e in the pass that registers it
EntryRegistered(e) ==
    LET p == IF hosts[e].ipAddr # 0 THEN 1 ELSE 2
    IN  cursor.pass > p \/ (cursor.pass = p /\ cursor.entry > e)

\* the addNewVirtualHost calls made for entry e
HostsAddedFor(e) == {k \in CallsOf("addHost") : trace[k].entry = e}

\* C14: an entry with name N and quantity q that registered without error added
\* exactly q hosts, in index order, named N when q = 1 and N1 .. Nq when q > 1,
\* each bound to an address of its own; with q = 0 it added none.
C14_QuantityExpansion ==
    \A e \in DOMAIN hosts :
        EntryRegistered(e) =>
            LET q  == hosts[e].quantity
                ks == HostsAddedFor(e)
            IN  /\ Cardinality(ks) = q
                /\ {trace[k].inst : k \in ks} = 0..(q - 1)
                /\ \A j, k \in ks : (j < k) <=> (trace[j].inst < trace[k].inst)
                /\ \A k \in ks :
                      /\ trace[k].name = IF q = 1 THEN hosts[e].name
                                         ELSE hosts[e].name \o Decimal(trace[k].inst + 1)
                      /\ trace[k].ip # 0
                      /\ \E a \in CallsOf("assignIp") :
                            /\ a < k
                            /\ trace[a].entry = e /\ trace[a].inst = trace[k].inst
                            /\ trace[a].ip = trace[k].ip
                      /\ \A j \in CallsOf("addHost") : j # k => trace[j].ip # trace[k].ip

\* registration succeeded for an entry with two hosts followed by an entry
\* with none
C14_Witness ==
    /\ pc = "routing"
    /\ Len(hosts) = 2
    /\ hosts[1].quantity = 2 /\ Cardinality(HostsAddedFor(1)) = 2
    /\ hosts[2].quantity = 0 /\ EntryRegistered(2)

\* C15: for a configuration whose entries have pairwise distinct names, the
\* hostnames handed to the Manager over both passes are pairwise distinct.
C15_HostnamesUnique ==
    DistinctNames(hosts) =>
        \A j, k \in CallsOf("addHost") : j # k => trace[j].name # trace[k].name

\* the option that decides a direction: the host option when it supplies a
\* value, otherwise the graph node's
Decides(hostOpt, nodeOpt) == IF hostOpt.ok THEN hostOpt ELSE nodeOpt

\* a direction of entry e is supplied by neither side, or resolves to zero
BadBandwidth(e) ==
    LET d == Decides(hosts[e].bwDown, nodeBw.down)
        u == Decides(hosts[e].bwUp, nodeBw.up)
    IN  ~d.ok \/ ~u.ok \/ d.v = 0 \/ u.v = 0

BandwidthErrors ==
    {"No downstream bandwidth provided for host",
     "No upstream bandwidth provided for host",
     "Bandwidth for host must be non-zero"}

\* C16: each direction handed to the Manager is the host option's value when
\* the host option supplies one, otherwise the graph node's value; when a
\* direction is supplied by neither, or resolves to zero, the host is not added
\* and registration fails with an error.
C16_BandwidthResolution ==
    \A e \in DOMAIN hosts :
        /\ \A k \in HostsAddedFor(e) :
              /\ trace[k].down = Decides(hosts[e].bwDown, nodeBw.down).v
              /\ trace[k].up = Decides(hosts[e].bwUp, nodeBw.up).v
        /\ BadBandwidth(e) =>
              /\ HostsAddedFor(e) = {}
              /\ (\E a \in CallsOf("assignIp") : trace[a].entry = e) =>
                    /\ RunReturned /\ exitCode = 1
                    /\ logs \cap BandwidthErrors # {}
                    /\ CallsOf("managerRun") = {}

\* a host was added whose downstream bandwidth both the host option and the
\* graph node supply, with different values, and whose upstream bandwidth only
\* the graph node supplies
C16_Witness ==
    /\ Len(hosts) = 1
    /\ hosts[1].bwDown.ok /\ nodeBw.down.ok
    /\ hosts[1].bwDown.v # nodeBw.down.v
    /\ ~hosts[1].bwUp.ok /\ nodeBw.up.ok
    /\ HostsAddedFor(1) # {}

\* the loop pass for instance i of entry e ended without error
InstanceRegistered(e, i) ==
    /\ i < hosts[e].quantity
    /\ \/ EntryRegistered(e)
       \/ /\ cursor.pass = (IF hosts[e].ipAddr # 0 THEN 1 ELSE 2)
          /\ cursor.entry = e
          /\ i < cursor.inst

\* the addNewVirtualProcess calls made for process entry p of instance i of entry e
ProcessesAddedFor(e, i, p) ==
    {k \in CallsOf("addProcess") :
        trace[k].entry = e /\ trace[k].inst = i /\ trace[k].proc = p}

\* C17: addNewVirtualHost for a hostname precedes every addNewVirtualProcess
\* for it; each process entry of a registered host instance is added exactly
\* proc.quantity times with argv = (resolved path, configured args in order,
\* NULL); a process entry whose path cannot be resolved is never added and
\* makes registration fail.
C17_ProcessRegistration ==
    /\ \A k \in CallsOf("addProcess") :
          \E h \in CallsOf("addHost") :
              /\ h < k
              /\ trace[h].name = trace[k].name
              /\ trace[h].entry = trace[k].entry /\ trace[h].inst = trace[k].inst
    /\ \A e \in DOMAIN hosts : \A p \in DOMAIN hosts[e].procs :
          LET proc == hosts[e].procs[p]
          IN  /\ \A i \in 0..(hosts[e].quantity - 1) :
                    /\ InstanceRegistered(e, i) =>
                          /\ proc.path # NULL
                          /\ Cardinality(ProcessesAddedFor(e, i, p)) = proc.quantity
                    /\ \A k \in ProcessesAddedFor(e, i, p) :
                          trace[k].argv = <<proc.path>> \o proc.args \o <<NULL>>
              /\ proc.path = NULL =>
                    /\ \A k \in CallsOf("addProcess") :
                          ~(trace[k].entry = e /\ trace[k].proc = p)
                    /\ HostsAddedFor(e) # {} =>
                          /\ RunReturned /\ exitCode = 1
                          /\ "couldn't find program path" \in logs
                          /\ CallsOf("managerRun") = {}

\* both instances of an entry were registered, each with two copies of a
\* process that has arguments and with a second process entry
C17_Witness ==
    /\ pc = "routing"
    /\ Len(hosts) = 1 /\ hosts[1].quantity = 2
    /\ Len(hosts[1].procs) = 2
    /\ hosts[1].procs[1].quantity = 2 /\ hosts[1].procs[1].args # << >>
    /\ hosts[1].procs[2].quantity = 1
    /\ InstanceRegistered(1, 1)
    /\ Cardinality(CallsOf("addProcess")) = 6

\* graph loading, host registration or routing construction failed
RunFailed ==
    logs \cap {"fatal error loading graph", "Unable to register hosts",
               "Unable to generate topology"} # {}

\* C18: when graph loading, host registration or routing construction fails,
\* run() returns exit code 1 without having invoked manager.run and, by the
\* time it returns, has released the Manager it created and the loaded graph.
C18_FailureReleasesResources ==
    (pc = "returned" /\ RunFailed) =>
        /\ exitCode = 1
        /\ CallsOf("managerRun") = {}
        /\ manager # "alive"
        /\ graph = "null"

\* C19: a managerFinishedCurrentRound call on a Controller in state Created
\* aborts; it never returns a window or a keepRunning value.
C19_EarlyRoundAborts ==
    phase = "Created" =>
        /\ ~ret.called
        /\ lastOp = "round" => aborted

\* C20: on return from controller_new no log message has been emitted, the
\* runahead has been captured, and all window state is zero.
C20_NewIsSilent ==
    lastOp = "new" =>
        /\ logs = {}
        /\ minJumpTimeConfig = config.runahead
        /\ minJumpTime = 0 /\ nextMinJumpTime = 0
        /\ executeWindowStart = 0 /\ executeWindowEnd = 0
        /\ endTime = 0

\* ------------------------------------------------- the plug-in: the claims

\* C21: fileserver_codetoa returns the name of a code whose value is an index
\* of the name table (0 <= index < 14); for every other value it returns NULL
\* and does not read outside the table.
C21_CodetoaWithinTable ==
    last.op = "codetoa" =>
        /\ ~last.outside
        /\ last.ret = IF last.arg \in 0..13
                      THEN fileserver_code_strings[last.arg + 1] ELSE NULL

\* --------------------------------------------- controller_run: the order

\* the place of a call in the order of run(): load, windows, Manager,
\* pass 1, pass 2, routing, graph release, manager.run, Manager release
StepRank(k) ==
    CASE trace[k].ev = "loadGraph"      -> 1
      [] trace[k].ev = "initWindows"    -> 2
      [] trace[k].ev = "managerNew"     -> 3
      [] trace[k].ev \in {"assignIp", "addHost", "addProcess"} ->
            IF hosts[trace[k].entry].ipAddr # 0 THEN 4 ELSE 5
      [] trace[k].ev = "routingInfoNew" -> 6
      [] trace[k].ev = "freeGraph"      -> 7
      [] trace[k].ev = "managerRun"     -> 8
      [] trace[k].ev = "managerFree"    -> 9

RanksReached == {StepRank(k) : k \in DOMAIN trace}

\* C22: while run() executes, its steps occur in the order load, window
\* initialisation, Manager creation, pass 1, pass 2, RoutingInfo construction,
\* graph release, manager.run, each only if all earlier ones succeeded; no
\* host or process is added before the Manager exists or after RoutingInfo
\* was constructed.
C22_RunStepOrder ==
    pc # "freed" =>
        /\ \A k \in 1..(Len(trace) - 1) :
              \/ StepRank(k) < StepRank(k + 1)
              \/ StepRank(k) = StepRank(k + 1) /\ StepRank(k) \in {4, 5}
        /\ \A r \in RanksReached :
              /\ r \in {2, 3} => (r - 1) \in RanksReached
              /\ r \in {4, 5, 6} => 3 \in RanksReached
              /\ r \in {7, 8, 9} => (r - 1) \in RanksReached
        /\ "fatal error loading graph" \in logs => RanksReached = {1}
        /\ aborted => RanksReached = {1, 2}
        /\ "Unable to register hosts" \in logs => RanksReached \cap (6..9) = {}
        /\ "Unable to generate topology" \in logs => RanksReached \cap (7..9) = {}
        /\ 6 \in RanksReached =>
              /\ cursor.pass = 2 /\ cursor.entry > Len(hosts)
              /\ \A e \in DOMAIN hosts : hosts[e].quantity > 0 => HostsAddedFor(e) # {}
        /\ \A k \in CallsOf("addHost") \cup CallsOf("addProcess") :
              /\ \E j \in CallsOf("managerNew") : j < k
              /\ \A j \in CallsOf("routingInfoNew") : k < j

\* manager.run was entered after both passes registered a host
C22_Witness ==
    /\ pc = "running"
    /\ RanksReached = 1..8
    /\ Len(hosts) = 2 /\ hosts[1].ipAddr = 0 /\ hosts[2].ipAddr # 0

GraphWarning == "network graph was not properly freed"

\* C23: once manager.run was entered the graph has been released and
\* RoutingInfo exists (until the Controller is destroyed); controller_free
\* emits the graph warning exactly when the Controller still holds a graph,
\* which never is the case after a run that entered manager.run.
C23_GraphReleasedBeforeRunning ==
    /\ [](/\ (CallsOf("managerRun") # {} /\ pc # "freed") =>
                (graph = "null" /\ routingInfo = "built")
          /\ pc # "freed" => GraphWarning \notin logs
          /\ (pc = "freed" /\ CallsOf("managerRun") # {}) => GraphWarning \notin logs)
    /\ [][pc' = "freed" => ((GraphWarning \in logs') <=> (graph # "null"))]_vars

\* the Controller was destroyed without a warning after a run that entered
\* manager.run
C23_Witness ==
    /\ pc = "freed"
    /\ CallsOf("managerRun") # {} /\ CallsOf("managerFree") # {}
    /\ "simulation controller destroyed" \in logs
    /\ GraphWarning \notin logs

\* _controller_registerHosts has returned, with success or with an error
RegisterHostsReturned ==
    pc = "routing" \/ (pc = "returned" /\ "Unable to register hosts" \in logs)

\* the addresses bound for, and the hosts added for, instance i of entry e
BoundFor(e, i) ==
    {k \in CallsOf("assignIp") : trace[k].entry = e /\ trace[k].inst = i}
AddedFor(e, i) ==
    {k \in CallsOf("addHost") : trace[k].entry = e /\ trace[k].inst = i}

\* every process entry of instance i of entry e was added as often as configured
AllProcessesAdded(e, i) ==
    \A p \in DOMAIN hosts[e].procs :
        Cardinality(ProcessesAddedFor(e, i, p)) = hosts[e].procs[p].quantity

Instances == {ei \in (DOMAIN hosts) \X (0..MaxQuantity) : ei[2] < hosts[ei[1]].quantity}

\* C25 (as stated): when _controller_registerHosts returns, with success or
\* with an error, every bound IP belongs to a host that was added to the
\* Manager and every added host has all of its configured processes.
C25_AllOrNothing ==
    RegisterHostsReturned =>
        \A ei \in Instances :
            /\ BoundFor(ei[1], ei[2]) # {} => AddedFor(ei[1], ei[2]) # {}
            /\ AddedFor(ei[1], ei[2]) # {} => AllProcessesAdded(ei[1], ei[2])

\* C25 (amended): when _controller_registerHosts returns, every instance but
\* the one whose registration failed has its bound IP on an added host with all
\* of its processes; the failing instance is left as far as it got: nothing
\* bound, or an IP bound without a host after a bandwidth error, or a host
\* added with the processes before the unresolvable path.
C25_CompleteButFailingInstance ==
    RegisterHostsReturned =>
        /\ ipAssignment = {trace[k].ip : k \in CallsOf("assignIp")}
        /\ \A ei \in Instances :
              LET e == ei[1]
                  i == ei[2]
                  failing == pc = "returned" /\ cursor.entry = e /\ cursor.inst = i
              IN  /\ ~failing =>
                        /\ BoundFor(e, i) # {} => AddedFor(e, i) # {}
                        /\ AddedFor(e, i) # {} => AllProcessesAdded(e, i)
                        /\ \A h \in AddedFor(e, i) :
                              \E a \in BoundFor(e, i) : a < h /\ trace[a].ip = trace[h].ip
                  /\ failing =>
                        /\ (BoundFor(e, i) # {} /\ AddedFor(e, i) = {})
                              => logs \cap BandwidthErrors # {}
                        /\ AddedFor(e, i) # {} =>
                              /\ "couldn't find program path" \in logs
                              /\ \E p \in DOMAIN hosts[e].procs :
                                    /\ hosts[e].procs[p].path = NULL
                                    /\ \A n \in DOMAIN hosts[e].procs :
                                          Cardinality(ProcessesAddedFor(e, i, n)) =
                                              IF n < p THEN hosts[e].procs[n].quantity ELSE 0

\* registration returned an error for a host without upstream bandwidth whose
\* IP stays bound
C25_Witness ==
    /\ pc = "returned" /\ "Unable to register hosts" \in logs
    /\ "No upstream bandwidth provided for host" \in logs
    /\ BoundFor(1, 0) # {} /\ AddedFor(1, 0) = {}
    /\ ipAssignment # {}

\* ------------------------------------------------- the threads: the claims

SetMin(S) == CHOOSE x \in S : \A y \in S : x <= y

\* no worker is inside controller_updateMinTimeJump
WorkersIdle == \A t \in WorkerThreads : threads.upd[t].pc = "idle"

\* C24 (as stated): under every interleaving of updateMinTimeJump calls made
\* from different threads, nextMinJumpTime ends as the minimum of the completed
\* observations, and a commit by managerFinishedCurrentRound never leaves
\* minJumpTime above the smallest observation completed before it.
C24_MinimumUnderEveryInterleaving ==
    ~aborted =>
        /\ (WorkersIdle /\ threads.completed # {}) =>
              nextMinJumpTime = SetMin(threads.completed)
        /\ threads.commit.done => minJumpTime <= SetMin(threads.commit.seen)

\* C24 (amended): nextMinJumpTime always is 0 or one of the completed
\* observations; it is their minimum as long as no two updateMinTimeJump calls
\* overlapped, and then a commit leaves minJumpTime at the smallest observation
\* completed before it, whether or not an updateMinTimeJump call interleaves
\* with managerFinishedCurrentRound.
C24_MinimumWhenSerialised ==
    ~aborted =>
        /\ nextMinJumpTime \in threads.completed \cup {0}
        /\ threads.completed # {} => nextMinJumpTime # 0
        /\ (~threads.raced /\ threads.completed # {}) =>
              nextMinJumpTime = SetMin(threads.completed)
        /\ threads.commit.done =>
              /\ minJumpTime \in threads.commit.seen
              /\ ~threads.commit.raced => minJumpTime = SetMin(threads.commit.seen)

\* two calls that did not overlap completed with different observations, the
\* smaller one last, and a commit took the minimum while a third call was
\* inside controller_updateMinTimeJump
C24_Witness ==
    /\ ~aborted /\ ~threads.raced
    /\ Cardinality(threads.completed) = 2
    /\ threads.commit.done /\ Cardinality(threads.commit.seen) = 2
    /\ threads.mgr.pc = "window"
    /\ ~WorkersIdle
    /\ minJumpTime = SetMin(threads.completed)

\* the peers that connected so far
PeerIds == 1..Len(env.peer)

\* the bytes of the one reply a peer is owed
ReplyLen(p) ==
    IF p.kind = "file" THEN HttpHeaderLen + NumDigits(p.flen) + p.flen ELSE Http404Len

\* the peer's request arrived whole and no call on its socket or file failed
Served(p) == p.pending = 0 /\ ~p.fault

\* C26: a connection whose complete request was received, and whose peer keeps
\* the socket open and takes the data, is not closed by the server before its
\* reply is counted, whatever the length of the file (an empty one and one that
\* ends exactly at the end of the reply buffer included), so that repeated
\* fileserver_activate calls can bring it back to FS_IDLE; the reply is counted
\* once, and when it is counted the peer got header plus file, or the 404 reply.
C26_ReplyCompletes ==
    last.op = "activate" =>
        \A id \in PeerIds :
            LET p == env.peer[id]
            IN  Served(p) =>
                  /\ p.replies <= 1
                  /\ p.replies = 0 => p.closes = 0
                  /\ p.replies = 1 => p.sent = ReplyLen(p)
                  /\ (p.replies = 1 /\ p.closes = 0) =>
                        \E sockd \in DOMAIN fs.connections :
                            /\ fs.connections[sockd].id = id
                            /\ fs.connections[sockd].state = "FS_IDLE"

ClosingCodes ==
    {"FS_CLOSED", "FS_ERR_RECV", "FS_ERR_SEND", "FS_ERR_BUFSPACE", "FS_ERR_FATAL"}
KeepingCodes == {"FS_SUCCESS", "FS_ERR_WOULDBLOCK"}
ConnectionStates ==
    {"FS_IDLE", "FS_REQUEST", "FS_REPLY_404_START", "FS_REPLY_FILE_START",
     "FS_REPLY_FILE_CONTINUE", "FS_REPLY_SEND"}

\* the last call was fileserver_activate on a connection of the table
OnTracked == last.op = "activate" /\ last.id # 0

\* after a call on a tracked connection: its code is a closing or a keeping one;
\* with a closing code the connection is out of the table, its socket is
\* closed, once, and its reply file is closed as often as it was opened; with a
\* keeping code the connection is in the table, open, in a state of the enum
C27_AfterTrackedCall ==
    OnTracked =>
        LET p == env.peer[last.id]
        IN  /\ last.code \in ClosingCodes \cup KeepingCodes
            /\ last.code \in ClosingCodes =>
                  /\ last.sockd \notin DOMAIN fs.connections
                  /\ \A s \in DOMAIN fs.connections : fs.connections[s].id # last.id
                  /\ last.sockd \notin env.open
                  /\ p.closes = 1
                  /\ p.fcloses = p.fopens
            /\ last.code \in KeepingCodes =>
                  /\ last.sockd \in DOMAIN fs.connections
                  /\ fs.connections[last.sockd].id = last.id
                  /\ fs.connections[last.sockd].sockd = last.sockd
                  /\ fs.connections[last.sockd].state \in ConnectionStates
                  /\ last.sockd \in env.open
                  /\ p.closes = 0

\* no socket is closed twice and no reply file is closed more often than opened
C27_ClosedOnce ==
    \A id \in PeerIds :
        /\ env.peer[id].closes <= 1
        /\ env.peer[id].fopens <= 1
        /\ env.peer[id].fcloses <= env.peer[id].fopens

\* a call with a descriptor that is neither the listener nor in the table
\* returns FS_ERR_BADSD and changes nothing; FS_ERR_BADSD is returned to no
\* other call
C27_UntrackedCall ==
    last'.op = "activate" /\ last'.sockd >= 0 =>
        /\ (last'.sockd # fs.listen_sockd /\ last'.sockd \notin DOMAIN fs.connections)
              => (last'.code = "FS_ERR_BADSD" /\ fs' = fs /\ env' = env)
        /\ last'.code = "FS_ERR_BADSD"
              => (last'.sockd # fs.listen_sockd /\ last'.sockd \notin DOMAIN fs.connections)

\* C27: every fileserver_activate call on a tracked connection that returns
\* FS_CLOSED, FS_ERR_RECV, FS_ERR_SEND, FS_ERR_BUFSPACE or FS_ERR_FATAL has
\* removed the connection from the table, closed its socket and closed an open
\* reply file exactly once; one that returns FS_SUCCESS or FS_ERR_WOULDBLOCK
\* has left the connection in the table in a valid state; a call with a socket
\* that is neither the listener nor in the table returns FS_ERR_BADSD and leaves
\* the table unchanged.
C27_ReturnCodesAndTable ==
    /\ [](C27_AfterTrackedCall /\ C27_ClosedOnce)
    /\ [][C27_UntrackedCall]_vars

\* send() failed on a connection whose reply file was still open: the call
\* returned FS_ERR_SEND, the file and the socket are closed, and the other
\* connection is still in the table
C27_Witness ==
    /\ OnTracked
    /\ last.code = "FS_ERR_SEND"
    /\ env.peer[last.id].fopens = 1
    /\ env.peer[last.id].fcloses = 1
    /\ env.peer[last.id].closes = 1
    /\ env.peer[last.id].sent > 0
    /\ DOMAIN fs.connections # {}
    /\ last.sockd \notin DOMAIN fs.connections

====
